---- MODULE Spec2Model ----
(* Model of zerocopy-buf: typed reads (by value, by reference, peek) from  *)
(* bytes::Buf streams and typed writes into bytes::BufMut destinations.     *)
EXTENDS Integers, Sequences, FiniteSets, TLC

VARIABLES
    kind,      \* which Buf the stream is: "Bytes", "BytesMut", "Slice", "Chain"
    chunks,    \* the stream: its contiguous chunks, front first
    orig,      \* the content the stream was constructed with
    consumed,  \* the byte regions handed out by the consuming calls so far
    last,      \* the last call on the stream and its outcome
    prev,      \* the call before it, when that was the same peek
    dkind,     \* which BufMut the destination is
    regions,   \* the destination: its regions, each a buffer and a write position
    pending,   \* the values written and not yet read back, oldest first
    wlast,     \* the last call on the destination and its outcome
    panicked,  \* whether a call on the destination has panicked
    copy       \* a call of copy_to_uninit_slice in progress: its position, stream and destination

vars == <<kind, chunks, orig, consumed, last, prev, dkind, regions, pending, wlast, panicked, copy>>
rvars == <<kind, chunks, orig, consumed, last, prev>>
wvars == <<dkind, regions, pending, wlast, panicked>>

----------------------------------------------------------------------------
(* Bounds *)

MaxLen == 4
MaxChunks == 3
MaxCount == 2
UsizeBits == 4
MaxCap == 3
MaxWrites == 2

ByteVals == {0, 255}
UsizeMax == 2 ^ UsizeBits - 1

----------------------------------------------------------------------------
(* Sequences of bytes *)

Min(a, b) == IF a < b THEN a ELSE b

Take(s, n) == SubSeq(s, 1, n)

Drop(s, n) == SubSeq(s, n + 1, Len(s))

RECURSIVE Flatten(_)
Flatten(cs) == IF cs = <<>> THEN <<>> ELSE Head(cs) \o Flatten(Tail(cs))

RECURSIVE SeqsUpTo(_)
SeqsUpTo(n) ==
    IF n = 0 THEN {<<>>}
    ELSE LET shorter == SeqsUpTo(n - 1)
         IN  shorter \cup {Append(s, b) : s \in {t \in shorter : Len(t) = n - 1}, b \in ByteVals}

RECURSIVE Splits(_, _)
Splits(s, k) ==
    IF k = 1 THEN {<<s>>}
    ELSE UNION {{<<Take(s, i)>> \o rest : rest \in Splits(Drop(s, i), k - 1)} : i \in 0..Len(s)}

----------------------------------------------------------------------------
(* Target types: sized types and slice DSTs with a fixed prefix *)

SizedTypes == {"Unit", "U8", "U16", "Header"}
DstTypes == {"SliceU16", "Packet"}

SizeOf(T) ==
    CASE T = "Unit" -> 0
      [] T = "U8" -> 1
      [] T = "U16" -> 2
      [] T = "Header" -> 3

Offset(T) == IF T = "Packet" THEN 2 ELSE 0

ElemSize(T) == IF T = "Packet" THEN 1 ELSE 2

Decode(T, b) ==
    CASE T = "Unit" -> <<>>
      [] T = "U8" -> <<b[1]>>
      [] T = "U16" -> <<b[1] * 256 + b[2]>>
      [] T = "Header" -> <<b[1], b[2] * 256 + b[3]>>

Encode(T, v) ==
    CASE T = "Unit" -> <<>>
      [] T = "U8" -> <<v[1]>>
      [] T = "U16" -> <<v[1] \div 256, v[1] % 256>>
      [] T = "Header" -> <<v[1], v[2] \div 256, v[2] % 256>>

----------------------------------------------------------------------------
(* bytes::Buf as the library uses it *)

RECURSIVE Remaining(_)
Remaining(this) == IF this = <<>> THEN 0 ELSE Len(Head(this)) + Remaining(Tail(this))

RECURSIVE Chunk(_)
Chunk(this) ==
    IF this = <<>> THEN <<>>
    ELSE IF Head(this) # <<>> THEN Head(this)
    ELSE Chunk(Tail(this))

RECURSIVE Advance(_, _)
Advance(this, cnt) ==
    IF this = <<>> THEN <<>>
    ELSE IF Len(Head(this)) >= cnt THEN <<Drop(Head(this), cnt)>> \o Tail(this)
    ELSE <<<<>>>> \o Advance(Tail(this), cnt - Len(Head(this)))

----------------------------------------------------------------------------
(* buf_polyfill::copy_to_uninit_slice *)

(* Mutants of the copy loop: the whole chunk is consumed whatever was copied; *)
(* each chunk's bytes are put in front of those already copied               *)
RECURSIVE CopyLoopWholeChunk(_, _, _)
CopyLoopWholeChunk(this, c, dst) ==
    IF c = 0 THEN [some |-> TRUE, bytes |-> dst, this |-> this]
    ELSE LET src == Chunk(this)
             cnt == Min(Len(src), c)
         IN  CopyLoopWholeChunk(Advance(this, Len(src)), c - cnt, dst \o Take(src, cnt))

RECURSIVE CopyLoopFront(_, _, _)
CopyLoopFront(this, c, dst) ==
    IF c = 0 THEN [some |-> TRUE, bytes |-> dst, this |-> this]
    ELSE LET src == Chunk(this)
             cnt == Min(Len(src), c)
         IN  CopyLoopFront(Advance(this, cnt), c - cnt, Take(src, cnt) \o dst)

RECURSIVE CopyLoop(_, _, _)
CopyLoop(this, c, dst) ==
    IF c = 0 THEN [some |-> TRUE, bytes |-> dst, this |-> this]
    ELSE LET src == Chunk(this)
             cnt == Min(Len(src), c)
         IN  CopyLoop(Advance(this, cnt), c - cnt, dst \o Take(src, cnt))

(* Mutant: a short stream is drained before the failure is reported *)
CopyToUninitSliceDrains(this, n) ==
    IF Remaining(this) < n
    THEN [some |-> FALSE, bytes |-> <<>>, this |-> Advance(this, Remaining(this))]
    ELSE CopyLoop(this, n, <<>>)

CopyToUninitSlice(this, n) ==
    IF Remaining(this) < n THEN [some |-> FALSE, bytes |-> <<>>, this |-> this]
    ELSE CopyLoop(this, n, <<>>)

(* Mutant: the bytes are validated as well as measured, and 255 is no legal first byte *)
ReadFromBytesValidates(T, bytes) ==
    IF Len(bytes) = SizeOf(T) /\ (bytes = <<>> \/ bytes[1] # 255)
    THEN [ok |-> TRUE, val |-> Decode(T, bytes)]
    ELSE [ok |-> FALSE, val |-> <<>>]

ReadFromBytes(T, bytes) ==
    IF Len(bytes) = SizeOf(T) THEN [ok |-> TRUE, val |-> Decode(T, bytes)]
    ELSE [ok |-> FALSE, val |-> <<>>]

TryRead(this, T) ==
    LET r == CopyToUninitSlice(this, SizeOf(T))
        bytes == IF r.some THEN r.bytes ELSE <<>>
        t == ReadFromBytes(T, bytes)
    IN  [ok |-> t.ok, ret |-> t.val, this |-> r.this, region |-> bytes]

----------------------------------------------------------------------------
(* copy_to_uninit_slice statement by statement. The destination is dst, of n *)
(* cells; c is dst[off+1..n]; a cell not yet written holds Uninit.           *)

Uninit == -1

NoCopy == [pc |-> "idle", this |-> <<>>, old |-> <<>>, n |-> 0, dst |-> <<>>, off |-> 0]

(* if this.remaining() < dst.len() { return None } *)
CopyCheck(cp) ==
    IF Remaining(cp.this) < cp.n THEN [cp EXCEPT !.pc = "none"]
    ELSE [cp EXCEPT !.pc = "loop"]

(* Mutant: c is not moved past the bytes copied *)
CopyIterationKeepsCursor(cp) ==
    LET src == Chunk(cp.this)
        cnt == Min(Len(src), cp.n - cp.off)
    IN  [cp EXCEPT !.dst = [i \in 1..cp.n |->
                              IF i > cp.off /\ i <= cp.off + cnt THEN src[i - cp.off] ELSE cp.dst[i]],
                   !.this = Advance(cp.this, cnt)]

(* One pass of the while body *)
CopyIteration(cp) ==
    LET src == Chunk(cp.this)
        cnt == Min(Len(src), cp.n - cp.off)
    IN  [cp EXCEPT !.dst = [i \in 1..cp.n |->
                              IF i > cp.off /\ i <= cp.off + cnt THEN src[i - cp.off] ELSE cp.dst[i]],
                   !.off = cp.off + cnt,
                   !.this = Advance(cp.this, cnt)]

----------------------------------------------------------------------------
(* zerocopy::Ref over a byte slice, as lib.rs calls it *)

(* Mutant: the length is computed with wrapping arithmetic *)
SizeForMetadataWrapping(T, count) == (Offset(T) + ElemSize(T) * count) % (UsizeMax + 1)

SizeForMetadata(T, count) ==
    LET slice_len == ElemSize(T) * count
        without_padding == Offset(T) + slice_len
    IN  IF slice_len > UsizeMax \/ without_padding > UsizeMax THEN -1
        ELSE without_padding

SplitBytes(self, mid) == [lhs |-> Take(self, mid), rhs |-> Drop(self, mid)]

(* Mutant: split_off in place of split_to *)
SplitOffBytesMut(self, mid) == [lhs |-> Drop(self, mid), rhs |-> Take(self, mid)]

SplitBytesMut(self, mid) == [lhs |-> Take(self, mid), rhs |-> Drop(self, mid)]

SplitSlice(self, mid) == [lhs |-> Take(self, mid), rhs |-> Drop(self, mid)]

SplitAtUnchecked(k, source, mid) ==
    CASE k = "Bytes" -> SplitBytes(source, mid)
      [] k = "BytesMut" -> SplitBytesMut(source, mid)
      [] k = "Slice" -> SplitSlice(source, mid)

RefFromPrefix(k, source, T) ==
    IF Len(source) < SizeOf(T) THEN [ok |-> FALSE, src |-> source]
    ELSE LET p == SplitAtUnchecked(k, source, SizeOf(T))
         IN  [ok |-> TRUE, a |-> p.lhs, b |-> p.rhs]

RefFromPrefixWithElems(k, source, T, count) ==
    LET expected_len == SizeForMetadata(T, count)
    IN  IF expected_len = -1 \/ Len(source) < expected_len THEN [ok |-> FALSE, src |-> source]
        ELSE LET p == SplitAtUnchecked(k, source, expected_len)
             IN  [ok |-> TRUE, a |-> p.lhs, b |-> p.rhs]

(* Mutant: the Ref is handed out and the stream keeps the bytes it covers *)
GotNotAdvanced(r) == [ok |-> TRUE, ret |-> r.a, self |-> r.a \o r.b]

(* The outcome of a by-reference call: the region the Ref covers and the stream left *)
Got(r) == [ok |-> TRUE, ret |-> r.a, self |-> r.b]

(* mem::replace(self, s.0): the source carried by the error goes back into the stream, *)
(* which mem::take had left empty                                                      *)
Restored(r) == [ok |-> FALSE, ret |-> <<>>, self |-> r.src]

Peeked(r, self) == [ok |-> r.ok, ret |-> IF r.ok THEN r.a ELSE <<>>, self |-> self]

----------------------------------------------------------------------------
(* impl ZeroCopyBuf for Bytes *)

(* Mutant: the error's source is not put back, the stream stays as mem::take left it *)
TryGetBytesNotRestored(self, T) ==
    LET taken == self
        r == RefFromPrefix("Bytes", taken, T)
    IN  IF r.ok THEN Got(r) ELSE [ok |-> FALSE, ret |-> <<>>, self |-> <<>>]

TryGetBytes(self, T) ==
    LET taken == self
        r == RefFromPrefix("Bytes", taken, T)
    IN  IF r.ok THEN Got(r) ELSE Restored(r)

TryGetElemsBytes(self, T, count) ==
    LET taken == self
        r == RefFromPrefixWithElems("Bytes", taken, T, count)
    IN  IF r.ok THEN Got(r) ELSE Restored(r)

TryPeekBytes(self, T) == Peeked(RefFromPrefix("Slice", self, T), self)

TryPeekElemsBytes(self, T, count) == Peeked(RefFromPrefixWithElems("Slice", self, T, count), self)

(* impl ZeroCopyBuf for BytesMut *)

TryGetBytesMut(self, T) ==
    LET taken == self
        r == RefFromPrefix("BytesMut", taken, T)
    IN  IF r.ok THEN Got(r) ELSE Restored(r)

TryGetElemsBytesMut(self, T, count) ==
    LET taken == self
        r == RefFromPrefixWithElems("BytesMut", taken, T, count)
    IN  IF r.ok THEN Got(r) ELSE Restored(r)

TryPeekBytesMut(self, T) == Peeked(RefFromPrefix("Slice", self, T), self)

TryPeekElemsBytesMut(self, T, count) == Peeked(RefFromPrefixWithElems("Slice", self, T, count), self)

(* impl ZeroCopyBuf for &[u8]: the stream is only assigned on success *)

TryGetSlice(self, T) ==
    LET r == RefFromPrefix("Slice", self, T)
    IN  IF r.ok THEN Got(r) ELSE [ok |-> FALSE, ret |-> <<>>, self |-> self]

TryGetElemsSlice(self, T, count) ==
    LET r == RefFromPrefixWithElems("Slice", self, T, count)
    IN  IF r.ok THEN Got(r) ELSE [ok |-> FALSE, ret |-> <<>>, self |-> self]

TryPeekSlice(self, T) == Peeked(RefFromPrefix("Slice", self, T), self)

(* Mutant: the peek assigns the remainder to the stream, as try_get_elems does *)
TryPeekElemsSliceAdvances(self, T, count) ==
    LET r == RefFromPrefixWithElems("Slice", self, T, count)
    IN  IF r.ok THEN Got(r) ELSE [ok |-> FALSE, ret |-> <<>>, self |-> self]

TryPeekElemsSlice(self, T, count) == Peeked(RefFromPrefixWithElems("Slice", self, T, count), self)

(* Dispatch on the stream's type *)

TryGet(k, self, T) ==
    CASE k = "Bytes" -> TryGetBytes(self, T)
      [] k = "BytesMut" -> TryGetBytesMut(self, T)
      [] k = "Slice" -> TryGetSlice(self, T)

TryGetElems(k, self, T, count) ==
    CASE k = "Bytes" -> TryGetElemsBytes(self, T, count)
      [] k = "BytesMut" -> TryGetElemsBytesMut(self, T, count)
      [] k = "Slice" -> TryGetElemsSlice(self, T, count)

TryPeek(k, self, T) ==
    CASE k = "Bytes" -> TryPeekBytes(self, T)
      [] k = "BytesMut" -> TryPeekBytesMut(self, T)
      [] k = "Slice" -> TryPeekSlice(self, T)

TryPeekElems(k, self, T, count) ==
    CASE k = "Bytes" -> TryPeekElemsBytes(self, T, count)
      [] k = "BytesMut" -> TryPeekElemsBytesMut(self, T, count)
      [] k = "Slice" -> TryPeekElemsSlice(self, T, count)

----------------------------------------------------------------------------
(* bytes::BufMut as write uses it, and the values written *)

Values(T) ==
    CASE T = "Unit" -> {<<>>}
      [] T = "U8" -> {<<b>> : b \in ByteVals}
      [] T = "U16" -> {<<hi * 256 + lo>> : hi \in ByteVals, lo \in ByteVals}
      [] T = "Header" -> {<<t, hi * 256 + lo>> : t \in ByteVals, hi \in ByteVals, lo \in ByteVals}

Zeros(n) == [i \in 1..n |-> 0]

RECURSIVE RemainingMut(_)
RemainingMut(rs) ==
    IF rs = <<>> THEN 0
    ELSE (Len(Head(rs).buf) - Head(rs).pos) + RemainingMut(Tail(rs))

(* The bytes before each region's write position, in region order *)
RECURSIVE Written(_)
Written(rs) ==
    IF rs = <<>> THEN <<>>
    ELSE Take(Head(rs).buf, Head(rs).pos) \o Written(Tail(rs))

(* copy_from_slice into chunk_mut()[..cnt], then advance_mut(cnt) *)
Fill(r, bytes) ==
    [buf |-> [i \in 1..Len(r.buf) |->
                IF i > r.pos /\ i <= r.pos + Len(bytes) THEN bytes[i - r.pos] ELSE r.buf[i]],
     pos |-> r.pos + Len(bytes)]

(* Mutant: the next region is given the front of the source again, not the rest *)
RECURSIVE PutLoopRepeats(_, _)
PutLoopRepeats(rs, src) ==
    IF src = <<>> THEN rs
    ELSE LET r == Head(rs)
             room == Len(r.buf) - r.pos
         IN  IF room = 0 THEN <<r>> \o PutLoopRepeats(Tail(rs), src)
             ELSE LET cnt == Min(Len(src), room)
                  IN  <<Fill(r, Take(src, cnt))>> \o PutLoopRepeats(Tail(rs), Take(src, Len(src) - cnt))

RECURSIVE PutLoop(_, _)
PutLoop(rs, src) ==
    IF src = <<>> THEN rs
    ELSE LET r == Head(rs)
             room == Len(r.buf) - r.pos
         IN  IF room = 0 THEN <<r>> \o PutLoop(Tail(rs), src)
             ELSE LET cnt == Min(Len(src), room)
                  IN  <<Fill(r, Take(src, cnt))>> \o PutLoop(Tail(rs), Drop(src, cnt))

(* Mutant: a destination with exactly the room needed is refused *)
PutSliceFixedOffByOne(rs, src) ==
    IF RemainingMut(rs) <= Len(src) THEN [ok |-> FALSE, rs |-> rs]
    ELSE [ok |-> TRUE, rs |-> PutLoop(rs, src)]

PutSliceFixed(rs, src) ==
    IF RemainingMut(rs) < Len(src) THEN [ok |-> FALSE, rs |-> rs]
    ELSE [ok |-> TRUE, rs |-> PutLoop(rs, src)]

PutSliceBytesMut(rs, src) ==
    [ok |-> TRUE, rs |-> <<[buf |-> rs[1].buf \o src, pos |-> rs[1].pos + Len(src)]>>]

PutSlice(k, rs, src) ==
    IF k = "BytesMut" THEN PutSliceBytesMut(rs, src) ELSE PutSliceFixed(rs, src)

(* Mutant: the value's bytes are put in reverse order *)
WriteReversed(k, rs, T, t) ==
    LET b == Encode(T, t)
    IN  PutSlice(k, rs, [i \in 1..Len(b) |-> b[Len(b) + 1 - i]])

Write(k, rs, T, t) == PutSlice(k, rs, Encode(T, t))

----------------------------------------------------------------------------
(* The stream and the calls on it *)

Contiguous == {"Bytes", "BytesMut", "Slice"}

Counts == (0..MaxCount) \cup {(UsizeMax + 1) \div 2, UsizeMax}

NoCall == [op |-> "none", ty |-> "Unit", count |-> 0, ok |-> FALSE, ret |-> <<>>, pre |-> <<>>]

Peeks == {"try_peek", "try_peek_elems"}

Before(op, T, count) ==
    IF op \in Peeks /\ last.op = op /\ last.ty = T /\ last.count = count
    THEN [last EXCEPT !.pre = <<>>]
    ELSE NoCall

Streams ==
    [k : {"Bytes", "BytesMut", "Slice"}, c : {<<s>> : s \in SeqsUpTo(MaxLen)}]
    \cup [k : {"Chain"}, c : UNION {Splits(s, n) : s \in SeqsUpTo(MaxLen), n \in 2..MaxChunks}]

RInit ==
    /\ \E s \in Streams : kind = s.k /\ chunks = s.c /\ orig = Flatten(s.c)
    /\ consumed = <<>>
    /\ last = NoCall
    /\ prev = NoCall

WIdle ==
    /\ dkind = "none"
    /\ regions = <<>>
    /\ pending = <<>>
    /\ wlast = [op |-> "none"]
    /\ panicked = FALSE

CIdle == copy = NoCopy

Init == RInit /\ WIdle /\ CIdle

DoTryRead ==
    \E T \in SizedTypes :
        LET r == TryRead(chunks, T)
        IN  /\ chunks' = r.this
            /\ last' = [op |-> "try_read", ty |-> T, count |-> 0, ok |-> r.ok,
                        ret |-> r.ret, pre |-> chunks]
            /\ prev' = Before("try_read", T, 0)
            /\ consumed' = IF r.ok THEN consumed \o r.region ELSE consumed
            /\ UNCHANGED <<kind, orig>>
            /\ UNCHANGED <<wvars, copy>>

DoTryGet ==
    /\ kind \in Contiguous
    /\ \E T \in SizedTypes :
        LET r == TryGet(kind, chunks[1], T)
        IN  /\ chunks' = <<r.self>>
            /\ last' = [op |-> "try_get", ty |-> T, count |-> 0, ok |-> r.ok,
                        ret |-> r.ret, pre |-> chunks]
            /\ prev' = Before("try_get", T, 0)
            /\ consumed' = IF r.ok THEN consumed \o r.ret ELSE consumed
            /\ UNCHANGED <<kind, orig>>
            /\ UNCHANGED <<wvars, copy>>

DoTryGetElems ==
    /\ kind \in Contiguous
    /\ \E T \in DstTypes, count \in Counts :
        LET r == TryGetElems(kind, chunks[1], T, count)
        IN  /\ chunks' = <<r.self>>
            /\ last' = [op |-> "try_get_elems", ty |-> T, count |-> count, ok |-> r.ok,
                        ret |-> r.ret, pre |-> chunks]
            /\ prev' = Before("try_get_elems", T, count)
            /\ consumed' = IF r.ok THEN consumed \o r.ret ELSE consumed
            /\ UNCHANGED <<kind, orig>>
            /\ UNCHANGED <<wvars, copy>>

DoTryPeek ==
    /\ kind \in Contiguous
    /\ \E T \in SizedTypes :
        LET r == TryPeek(kind, chunks[1], T)
        IN  /\ chunks' = <<r.self>>
            /\ last' = [op |-> "try_peek", ty |-> T, count |-> 0, ok |-> r.ok,
                        ret |-> r.ret, pre |-> chunks]
            /\ prev' = Before("try_peek", T, 0)
            /\ UNCHANGED <<kind, orig, consumed>>
            /\ UNCHANGED <<wvars, copy>>

DoTryPeekElems ==
    /\ kind \in Contiguous
    /\ \E T \in DstTypes, count \in Counts :
        LET r == TryPeekElems(kind, chunks[1], T, count)
        IN  /\ chunks' = <<r.self>>
            /\ last' = [op |-> "try_peek_elems", ty |-> T, count |-> count, ok |-> r.ok,
                        ret |-> r.ret, pre |-> chunks]
            /\ prev' = Before("try_peek_elems", T, count)
            /\ UNCHANGED <<kind, orig, consumed>>
            /\ UNCHANGED <<wvars, copy>>

Next ==
    \/ DoTryRead
    \/ DoTryGet
    \/ DoTryGetElems
    \/ DoTryPeek
    \/ DoTryPeekElems

Spec == Init /\ [][Next]_vars

----------------------------------------------------------------------------
(* The destination and the calls on it *)

Destinations ==
    {[k |-> "BytesMut", rs |-> <<[buf |-> <<>>, pos |-> 0]>>]}
    \cup {[k |-> "SliceMut", rs |-> <<[buf |-> Zeros(c), pos |-> 0]>>] : c \in 0..MaxCap}
    \cup {[k |-> "ChainMut", rs |-> <<[buf |-> Zeros(a), pos |-> 0], [buf |-> Zeros(b), pos |-> 0]>>] :
            a \in 0..MaxCap, b \in 0..MaxCap}

WInit ==
    /\ \E d \in Destinations : dkind = d.k /\ regions = d.rs
    /\ pending = <<>>
    /\ wlast = [op |-> "none"]
    /\ panicked = FALSE

RIdle ==
    /\ kind = "none"
    /\ chunks = <<>>
    /\ orig = <<>>
    /\ consumed = <<>>
    /\ last = NoCall
    /\ prev = NoCall

DoWrite ==
    /\ ~panicked
    /\ Len(pending) < MaxWrites
    /\ \E T \in SizedTypes : \E t \in Values(T) :
        LET r == Write(dkind, regions, T, t)
        IN  /\ regions' = r.rs
            /\ panicked' = ~r.ok
            /\ pending' = IF r.ok THEN Append(pending, [ty |-> T, val |-> t]) ELSE pending
            /\ wlast' = [op |-> "write", ty |-> T, val |-> t, ok |-> r.ok, pre |-> regions]
            /\ UNCHANGED dkind
            /\ UNCHANGED <<rvars, copy>>

(* The written BytesMut read back as a Buf, one value per value written *)
DoReadBack ==
    /\ ~panicked
    /\ dkind = "BytesMut"
    /\ pending # <<>>
    /\ LET T == Head(pending).ty
           r == TryRead(<<regions[1].buf>>, T)
       IN  /\ regions' = <<[buf |-> r.this[1], pos |-> Len(r.this[1])]>>
           /\ pending' = Tail(pending)
           /\ wlast' = [op |-> "try_read", ty |-> T, val |-> Head(pending).val, ok |-> r.ok,
                        ret |-> r.ret, pre |-> regions]
           /\ UNCHANGED <<dkind, panicked>>
           /\ UNCHANGED <<rvars, copy>>

WNext ==
    \/ DoWrite
    \/ DoReadBack

WriteInit == RIdle /\ WInit /\ CIdle

WriteSpec == WriteInit /\ [][WNext]_vars

----------------------------------------------------------------------------
(* Properties of the calls on the stream *)

Gets == {"try_get", "try_get_elems"}

(* The byte length a call asks for, in unbounded arithmetic *)
RequiredLen(call) ==
    IF call.op \in {"try_get_elems", "try_peek_elems"}
    THEN Offset(call.ty) + call.count * ElemSize(call.ty)
    ELSE SizeOf(call.ty)

\* C1: try_read::<T> succeeds exactly when the stream holds at least size_of(T)
\* bytes; on success the stream has advanced by exactly size_of(T), the value is
\* built from the first size_of(T) bytes in stream order and the bytes after them
\* are the new content.
C1_TryReadContract ==
    last.op = "try_read" =>
        LET n == SizeOf(last.ty)
            old == Flatten(last.pre)
        IN  /\ last.ok <=> Len(old) >= n
            /\ last.ok =>
                /\ Remaining(chunks) = Len(old) - n
                /\ last.ret = Decode(last.ty, Take(old, n))
                /\ Flatten(chunks) = Drop(old, n)

C1_Witness ==
    /\ last.op = "try_read" /\ last.ok /\ last.ty = "Header"
    /\ kind = "Chain" /\ Len(last.pre[1]) = 1
    /\ Remaining(last.pre) = 3 /\ Remaining(chunks) = 0

\* C2: try_read::<T> on a stream shorter than size_of(T) fails and consumes
\* nothing: the chunks and their content are the same after the call as before.
C2_TryReadShortUnchanged ==
    (last.op = "try_read" /\ Len(Flatten(last.pre)) < SizeOf(last.ty)) =>
        /\ ~last.ok
        /\ chunks = last.pre
        /\ Remaining(chunks) = Remaining(last.pre)

C2_Witness ==
    /\ last.op = "try_read" /\ ~last.ok /\ last.ty = "Header"
    /\ kind = "Chain" /\ Len(last.pre[1]) = 1 /\ Remaining(last.pre) = 2
    /\ chunks = last.pre

\* C3: try_get / try_get_elems on Bytes, BytesMut and &[u8] with at least the
\* required length L succeed, return exactly the first L bytes, leave exactly the
\* bytes from offset L on, and prefix followed by remainder is the old content.
C3_TryGetSplitsPrefix ==
    (last.op \in Gets /\ Len(Flatten(last.pre)) >= RequiredLen(last)) =>
        LET L == RequiredLen(last)
            old == last.pre[1]
        IN  /\ last.ok
            /\ Len(last.ret) = L
            /\ last.ret = Take(old, L)
            /\ chunks = <<Drop(old, L)>>
            /\ last.ret \o chunks[1] = old

C3_Witness ==
    /\ last.op = "try_get_elems" /\ last.ok /\ kind = "BytesMut"
    /\ last.ty = "Packet" /\ last.count = 1
    /\ Len(last.pre[1]) = 4 /\ Len(last.ret) = 3 /\ Len(chunks[1]) = 1

\* C4: a failed try_get / try_get_elems on Bytes, BytesMut and &[u8] leaves the
\* stream unconsumed: its length and content are those before the call.
C4_TryGetFailureRestores ==
    (last.op \in Gets /\ ~last.ok) =>
        /\ chunks = last.pre
        /\ Remaining(chunks) = Remaining(last.pre)

C4_Witness ==
    /\ last.op = "try_get" /\ ~last.ok /\ kind = "Bytes"
    /\ last.ty = "Header" /\ Len(last.pre[1]) = 2 /\ chunks = last.pre

\* C5: try_peek / try_peek_elems never change the stream, whatever the outcome,
\* a successful peek refers to the first L bytes, and the same peek made twice in
\* succession returns equal results.
C5_PeekLeavesStream ==
    last.op \in Peeks =>
        /\ chunks = last.pre
        /\ Remaining(chunks) = Remaining(last.pre)
        /\ last.ok => last.ret = Take(last.pre[1], RequiredLen(last))
        /\ prev.op = last.op => (last.ok = prev.ok /\ last.ret = prev.ret)

C5_Witness ==
    /\ last.op = "try_peek_elems" /\ prev.op = "try_peek_elems"
    /\ last.ok /\ prev.ok /\ last.ty = "SliceU16" /\ last.count = 1
    /\ kind = "Slice" /\ Len(chunks[1]) = 3

\* C7: try_read::<T> on a chained stream returns the same outcome and consumes
\* the same number of bytes as try_read::<T> on one contiguous stream holding the
\* same bytes, wherever the chunk boundaries lie.
C7_ChunkTransparency ==
    (kind = "Chain" /\ last.op = "try_read") =>
        LET whole == <<Flatten(last.pre)>>
            r == TryRead(whole, last.ty)
        IN  /\ last.ok = r.ok
            /\ last.ret = r.ret
            /\ Remaining(last.pre) - Remaining(chunks) = Remaining(whole) - Remaining(r.this)

C7_Witness ==
    /\ kind = "Chain" /\ last.op = "try_read" /\ last.ok /\ last.ty = "Header"
    /\ Len(last.pre) = 3 /\ \A i \in 1..3 : Len(last.pre[i]) = 1
    /\ last.ret = <<0, 255>>

\* C8: when fixed_prefix_size(T) + count * element_size(T) does not fit the size
\* type, try_get_elems and try_peek_elems return a failure, hand out no bytes and
\* leave the stream unchanged.
C8_OverflowIsSizeFailure ==
    (last.op \in {"try_get_elems", "try_peek_elems"} /\ RequiredLen(last) > UsizeMax) =>
        /\ ~last.ok
        /\ last.ret = <<>>
        /\ chunks = last.pre

C8_Witness ==
    /\ last.op = "try_get_elems" /\ ~last.ok
    /\ last.ty = "SliceU16" /\ last.count = (UsizeMax + 1) \div 2
    /\ Len(last.pre[1]) = 2 /\ chunks = last.pre

----------------------------------------------------------------------------
(* Properties of the calls on the destination *)

\* C6: a value written to a BytesMut and read back from it with try_read of the
\* same type is returned bitwise-equal, and values written in order are read
\* back in the same order.
C6_RoundTrip ==
    wlast.op = "try_read" =>
        /\ wlast.ok
        /\ wlast.ret = wlast.val
        /\ Encode(wlast.ty, wlast.ret) = Take(wlast.pre[1].buf, SizeOf(wlast.ty))

C6_Witness ==
    /\ wlast.op = "try_read" /\ wlast.ok /\ wlast.ty = "Header"
    /\ wlast.val = <<0, 255>> /\ wlast.ret = <<0, 255>>
    /\ pending # <<>> /\ Head(pending).ty = "U16"

\* C9: a write that returns has put exactly the size_of(T) bytes of the value, in
\* order, at the write position: the bytes written before are unchanged, the
\* position has moved by size_of(T), every region keeps its size, and a chain is
\* filled region after region.
C9_WriteAppends ==
    (wlast.op = "write" /\ wlast.ok) =>
        LET b == Encode(wlast.ty, wlast.val)
        IN  /\ Len(b) = SizeOf(wlast.ty)
            /\ Written(regions) = Written(wlast.pre) \o b
            /\ Len(regions) = Len(wlast.pre)
            /\ \A i \in 1..Len(regions) :
                /\ regions[i].pos >= wlast.pre[i].pos
                /\ Take(regions[i].buf, wlast.pre[i].pos) = Take(wlast.pre[i].buf, wlast.pre[i].pos)
                /\ dkind # "BytesMut" =>
                    /\ Len(regions[i].buf) = Len(wlast.pre[i].buf)
                    /\ Drop(regions[i].buf, regions[i].pos) = Drop(wlast.pre[i].buf, regions[i].pos)
                /\ (i > 1 /\ regions[i].pos > 0) => regions[i - 1].pos = Len(regions[i - 1].buf)

C9_Witness ==
    /\ wlast.op = "write" /\ wlast.ok /\ dkind = "ChainMut"
    /\ wlast.ty = "Header" /\ wlast.val = <<255, 255>>
    /\ Len(wlast.pre[1].buf) = 2 /\ wlast.pre[1].pos = 0 /\ wlast.pre[2].pos = 0
    /\ regions[1].buf = <<255, 0>> /\ regions[2].pos = 1 /\ regions[2].buf[1] = 255

\* C10 as stated: write completes normally on every destination, whatever its
\* remaining writable capacity.
C10_WriteAlwaysSucceeds == wlast.op = "write" => wlast.ok

\* C10, amended: write completes normally exactly when the destination is
\* growable or its remaining writable capacity is at least size_of(T); with less
\* capacity the call panics and nothing has been written.
C10_WriteSucceedsWithinCapacity ==
    wlast.op = "write" =>
        /\ wlast.ok <=> (dkind = "BytesMut" \/ RemainingMut(wlast.pre) >= SizeOf(wlast.ty))
        /\ panicked <=> ~wlast.ok
        /\ ~wlast.ok => regions = wlast.pre

C10_Witness ==
    /\ wlast.op = "write" /\ ~wlast.ok /\ panicked /\ dkind = "ChainMut"
    /\ wlast.ty = "Header" /\ RemainingMut(wlast.pre) = 2
    /\ Len(pending) = 1

----------------------------------------------------------------------------
(* The failures of try_read *)

(* A try_read that returns a failure and leaves fewer bytes than it found *)
ConsumingFailure ==
    /\ DoTryRead
    /\ ~last'.ok
    /\ Remaining(chunks') < Remaining(chunks)

\* C11 as stated: try_read has an outcome that is a failure with remaining(s)
\* smaller than before the call, whenever the stream holds bytes to consume.
C11_FailureAfterConsuming == Remaining(chunks) >= 1 => ENABLED ConsumingFailure

\* C11, amended: try_read has no validation failure. With enough bytes it
\* succeeds for every byte pattern; it fails only on a stream shorter than
\* size_of(T), and then remaining(s) and the content are unchanged.
C11_FailureConsumesNothing ==
    last.op = "try_read" =>
        LET n == SizeOf(last.ty)
            old == Flatten(last.pre)
        IN  /\ Len(old) >= n => last.ok
            /\ ~last.ok =>
                /\ Len(old) < n
                /\ Remaining(chunks) = Remaining(last.pre)
                /\ chunks = last.pre
                /\ last.ret = <<>>

C11_Witness ==
    /\ last.op = "try_read" /\ ~last.ok /\ last.ty = "Header"
    /\ kind = "Bytes" /\ last.pre = <<(<<255, 255>>)>>
    /\ Remaining(chunks) = 2

----------------------------------------------------------------------------
(* A call of copy_to_uninit_slice, run to its return *)

CInit ==
    \E s \in Streams, n \in 0..MaxLen :
        copy = [pc |-> "call", this |-> s.c, old |-> s.c, n |-> n,
                dst |-> [i \in 1..n |-> Uninit], off |-> 0]

CopyEnter ==
    /\ copy.pc = "call"
    /\ copy' = CopyCheck(copy)
    /\ UNCHANGED <<rvars, wvars>>

CopyIterate ==
    /\ copy.pc = "loop"
    /\ copy.off < copy.n
    /\ copy' = CopyIteration(copy)
    /\ UNCHANGED <<rvars, wvars>>

CopyReturn ==
    /\ copy.pc = "loop"
    /\ copy.off = copy.n
    /\ copy' = [copy EXCEPT !.pc = "some"]
    /\ UNCHANGED <<rvars, wvars>>

CNext ==
    \/ CopyEnter
    \/ CopyIterate
    \/ CopyReturn

CopyInit == RIdle /\ WIdle /\ CInit

CopySpec == CopyInit /\ [][CNext]_vars /\ WF_vars(CNext)

----------------------------------------------------------------------------
(* Properties of the copy loop *)

CopyReturned == copy.pc \in {"some", "none"}

(* While the loop runs, the cells before c are written from the old stream, those *)
(* of c are not, and the stream has moved by as much as c                         *)
CopyProgress ==
    copy.pc \in {"loop", "some"} =>
        /\ copy.off <= copy.n
        /\ \A i \in 1..copy.n :
            copy.dst[i] = IF i <= copy.off THEN Flatten(copy.old)[i] ELSE Uninit
        /\ Flatten(copy.this) = Drop(Flatten(copy.old), copy.off)
        /\ Remaining(copy.old) >= copy.n

CopyResult ==
    /\ copy.pc = "some" =>
        /\ copy.off = copy.n
        /\ \A i \in 1..copy.n : copy.dst[i] # Uninit /\ copy.dst[i] = Flatten(copy.old)[i]
        /\ Remaining(copy.old) - Remaining(copy.this) = copy.n
        /\ copy.n = 0 => copy.this = copy.old
        /\ CopyToUninitSlice(copy.old, copy.n) = [some |-> TRUE, bytes |-> copy.dst, this |-> copy.this]
    /\ copy.pc = "none" =>
        /\ Remaining(copy.old) < copy.n
        /\ copy.this = copy.old
        /\ ~CopyToUninitSlice(copy.old, copy.n).some

(* Each pass copies min(chunk_len, destination_remaining) bytes, at least one, and *)
(* moves the stream and c by that amount                                            *)
CopyPass ==
    (copy.pc = "loop" /\ copy'.pc = "loop") =>
        LET cnt == Min(Len(Chunk(copy.this)), copy.n - copy.off)
        IN  /\ cnt >= 1
            /\ copy'.off = copy.off + cnt
            /\ Remaining(copy.this) - Remaining(copy'.this) = cnt

\* C12: the copy loop of copy_to_uninit_slice terminates for every chunking; each
\* pass copies min(chunk_len, destination_remaining) bytes and advances stream and
\* destination cursor by that amount; at exit every destination byte is written
\* with the byte of the old stream at its index, the stream has advanced by
\* exactly N, and N = 0 succeeds without touching the stream.
C12_CopyLoopTerminates ==
    /\ [](CopyProgress /\ CopyResult)
    /\ [][CopyPass]_vars
    /\ <>CopyReturned

C12_Witness ==
    /\ copy.pc = "some" /\ copy.n = 3 /\ copy.dst = <<255, 0, 255>>
    /\ Len(copy.old) = 3 /\ Len(copy.old[1]) = 1 /\ Len(copy.old[2]) = 1 /\ Len(copy.old[3]) = 2
    /\ Remaining(copy.this) = 1

----------------------------------------------------------------------------
(* Conservation of the stream's bytes *)

\* C13: after any sequence of try_read, try_get, try_get_elems, try_peek and
\* try_peek_elems calls, the regions returned by the successful consuming calls,
\* in call order, followed by the stream's current content are the content the
\* stream started with: nothing is skipped, returned twice or reordered, and no
\* call leaves more bytes than it found.
C13_Conservation ==
    /\ consumed \o Flatten(chunks) = orig
    /\ Len(consumed) + Remaining(chunks) = Len(orig)
    /\ last.op # "none" =>
        /\ Remaining(chunks) <= Remaining(last.pre)
        /\ consumed \o Flatten(chunks) =
             Take(orig, Len(orig) - Remaining(last.pre)) \o Flatten(last.pre)
        /\ (last.ok /\ last.op \notin Peeks) =>
             Remaining(chunks) = Remaining(last.pre) - RequiredLen(last)

C13_Witness ==
    /\ kind = "BytesMut" /\ orig = <<0, 255, 255, 0>>
    /\ last.op = "try_get_elems" /\ last.ok /\ last.ret = <<255, 255>>
    /\ consumed = <<0, 255, 255>> /\ chunks = <<(<<0>>)>>

====
